---- MODULE Spec2Model ----
(***************************************************************************)
(* Boksy: typed tables and secondary indexes on top of Deno.Kv (db.ts).    *)
(*                                                                         *)
(* The key-value store is one function `kv` from keys (tuples) to values,  *)
(* with the three key families the code uses:                              *)
(*   <<table, id>>                          |-> the record                 *)
(*   <<"__indexes_for", table, field>>      |-> field   (definition marker)*)
(*   <<"__indexes", table, field, value, id>> |-> id    (index entry)      *)
(* Every async method of Database is a call held in a slot of `calls`; it  *)
(* advances by one store operation (one `await`) per step, so the steps of *)
(* concurrent calls interleave as the event loop allows.                   *)
(***************************************************************************)
EXTENDS Integers, Sequences, FiniteSets, TLC

VARIABLES kv, calls, now, indexes, started, created, returned, crashed

vars == <<kv, calls, now, indexes, started, created, returned, crashed>>

\* ------------------------------------------------------------- bounds
\* Number of ulid() calls (records created by create_entry) in one run.
MaxRecords == 2
\* The clock readings (milliseconds) are in 0..MaxTime.
MaxTime == 1
\* Number of calls the application makes in one run.
MaxCalls == 3

\* The schema of the tests: users has fields, empty has none.
Tables == {"users", "empty"}
Fields == {"email"}
\* Field values; 0 stands for the falsy values of JS (0, "", false).
Values == {0, 1}
\* The random part of a ULID.
Rand == {0, 1}
\* Calls that can be in flight together.
Slots == {1, 2}

SchemaFields(t) == IF t = "users" THEN Fields ELSE {}
IndexPairs == {<<"users", f>> : f \in Fields}
\* The index configurations a Database is opened with (tests: {} and users.email).
Configs == {{}, {<<"users", "email">>}}
\* Deno.Kv orders string key parts lexicographically: "age" < "email".
FieldRank(f) == IF f = "age" THEN 0 ELSE 1

\* ------------------------------------------------------------- values
EmptyRec == [x \in {} |-> 0]
\* { ...a, ...b }
Merge(a, b) ==
  [x \in DOMAIN a \cup DOMAIN b |-> IF x \in DOMAIN b THEN b[x] ELSE a[x]]
\* Every value bag the schema of table t allows (any subset of its fields).
FieldSets(t) == UNION {[S -> Values] : S \in SUBSET SchemaFields(t)}
\* JS truthiness of entry[f]: undefined and 0 are falsy.
Truthy(e, f) == f \in DOMAIN e /\ e[f] # 0

\* ------------------------------------------------------------- ulid
\* jsr:@std/ulid ulid(): 48-bit time then 80 random bits, compared as text.
Ulid(t, r) == t * Cardinality(Rand) + r
IdPool == {Ulid(t, r) : t \in 0..MaxTime, r \in Rand}
Issued == {created[i].id : i \in DOMAIN created}

\* ------------------------------------------------------------- the store
RECURSIVE HasPrefix(_, _)
HasPrefix(k, p) ==
  IF p = <<>> THEN TRUE
  ELSE /\ k # <<>>
       /\ Head(k) = Head(p)
       /\ HasPrefix(Tail(k), Tail(p))

\* Order of two keys of one family under a common prefix.
KeyLess(a, b) ==
  IF Len(a) = 2 THEN a[2] < b[2]
  ELSE IF Len(a) = 3 THEN FieldRank(a[3]) < FieldRank(b[3])
  ELSE \/ FieldRank(a[3]) < FieldRank(b[3])
       \/ a[3] = b[3] /\ a[4] < b[4]
       \/ a[3] = b[3] /\ a[4] = b[4] /\ a[5] < b[5]

RECURSIVE SortKeys(_)
SortKeys(S) ==
  IF S = {} THEN <<>>
  ELSE LET m == CHOOSE k \in S : \A o \in S \ {k} : KeyLess(k, o)
       IN <<m>> \o SortKeys(S \ {m})

Set(store, k, v) == [x \in DOMAIN store \cup {k} |-> IF x = k THEN v ELSE store[x]]
Delete(store, k) == [x \in DOMAIN store \ {k} |-> store[x]]

RecordKeys(store) == {k \in DOMAIN store : Len(k) = 2}
Marker(t, f) == <<"__indexes_for", t, f>>
\* Faulty variant: the key of an entry does not end with the id of the record.
IndexKeyUnique(t, f, v, id) == <<"__indexes", t, f, v, 0>>
IndexKey(t, f, v, id) == <<"__indexes", t, f, v, id>>

\* kv.list({ prefix }): the entries under the prefix, in key order.
List(store, prefix) ==
  LET keys == SortKeys({k \in DOMAIN store : HasPrefix(k, prefix) /\ Len(k) > Len(prefix)})
  IN [i \in 1..Len(keys) |-> [key |-> keys[i], value |-> store[keys[i]]]]

\* ------------------------------------------------------------- reads
\* A read yields an optional record: {} is undefined, {r} is the record r.
\* A call that rejects carries error = TRUE.
Return(v) == [error |-> FALSE, value |-> v]
Throw == [error |-> TRUE, value |-> {}]
\* The outcome of a call whose store operation rejects (an invalid key part).
TypeError == "TypeError"

get_from_key(store, key) == IF key \in DOMAIN store THEN {store[key]} ELSE {}

get_entry(store, t, id) == get_from_key(store, <<t, id>>)

\* Faulty variant: the scan is not restricted to the table.
get_all_entries_of_any_table(store, t) ==
  LET keys == SortKeys(RecordKeys(store)) IN [i \in 1..Len(keys) |-> store[keys[i]]]

\* Array.fromAsync(kv.list({ prefix: [table_name] }), e => e.value)
get_all_entries(store, t) ==
  LET l == List(store, <<t>>) IN [i \in 1..Len(l) |-> l[i].value]

\* kv.list(selector, { limit }): at most `limit` entries, from the first.
Take(q, n) == SubSeq(q, 1, IF n < Len(q) THEN n ELSE Len(q))

\* Faulty variant: the limit is not passed to the scan.
get_all_entries_unlimited(store, t, limit) == get_all_entries(store, t)

\* get_all_entries(table_name, limit): limit is {} when omitted
\* (limit ?? Infinity), {n} otherwise.
get_all_entries_limit(store, t, limit) ==
  IF limit = {} THEN get_all_entries(store, t)
  ELSE Take(get_all_entries(store, t), CHOOSE n \in limit : TRUE)

get_all_from_key(store, prefix) == List(store, prefix)

\* Array.fromAsync(entries, e => get_entry(table, e.value)): one element per
\* index entry, undefined ({}) where the record is missing.
get_entries_by_index(store, t, f, v) ==
  LET es == get_all_from_key(store, <<"__indexes", t, f, v>>)
  IN [i \in 1..Len(es) |-> get_entry(store, t, es[i].value)]

\* entries[0]?.value is undefined on a miss, and kv.get([table, undefined])
\* rejects the key part.
get_entry_by_index(store, t, f, v) ==
  LET es == get_all_from_key(store, <<"__indexes", t, f, v>>)
  IN IF Len(es) = 0 THEN Throw ELSE Return(get_entry(store, t, es[1].value))

\* ------------------------------------------------------------- calls
Idle ==
  [op |-> "idle", pc |-> "idle", table |-> "", value |-> EmptyRec,
   field |-> "", todo |-> <<>>, result |-> "", prev |-> {}, writes |-> 0]

Call(o, p, t, v, f) ==
  [op |-> o, pc |-> p, table |-> t, value |-> v,
   field |-> f, todo |-> <<>>, result |-> "", prev |-> {}, writes |-> 0]

InFlight(c) == calls[c].pc \notin {"idle", "done"}
\* A new call takes the lowest slot that holds no call in flight.
Free(c) == ~InFlight(c) /\ \A d \in Slots : d < c => InFlight(d)
Quiet == \A c \in Slots : ~InFlight(c)

Done(call, res) == [call EXCEPT !.pc = "done", !.todo = <<>>, !.result = res]

\* The application makes a call in slot c; the results of the calls that
\* have returned are consumed.
Begin(c, call) ==
  /\ started < MaxCalls
  /\ Free(c)
  /\ started' = started + 1
  /\ calls' = [d \in Slots |-> IF d = c THEN call
                                ELSE IF InFlight(d) THEN calls[d] ELSE Idle]


\* The ids that calls in flight name: ulid() does not collide with them.
Pending == {calls[c].value.id : c \in {d \in Slots : InFlight(d) /\ "id" \in DOMAIN calls[d].value}}
\* The ids of the create_entry calls that have not returned: no update or
\* delete can name them (the caller learns the id from the return value).
Unreturned ==
  {calls[c].value.id : c \in {d \in Slots : InFlight(d) /\ calls[d].op = "create_entry"}}

\* ------------------------------------------------------------- Database
\* #init_indexes: create_index for every configured pair, none awaited.
RECURSIVE SortPairs(_)
SortPairs(cfg) ==
  IF cfg = {} THEN <<>>
  ELSE LET m == CHOOSE p \in cfg : \A o \in cfg \ {p} : FieldRank(p[2]) < FieldRank(o[2])
       IN <<m>> \o SortPairs(cfg \ {m})

RECURSIVE SortSlots(_)
SortSlots(S) ==
  IF S = {} THEN <<>>
  ELSE LET m == CHOOSE c \in S : \A o \in S : c <= o IN <<m>> \o SortSlots(S \ {m})

init_indexes(cs, cfg) ==
  LET ps == SortPairs(cfg)
      fs == SortSlots({c \in Slots : cs[c].pc \in {"idle", "done"}})
  IN [c \in Slots |->
        IF \E i \in 1..Len(ps) : fs[i] = c
        THEN LET i == CHOOSE j \in 1..Len(ps) : fs[j] = c
             IN [Idle EXCEPT !.op = "create_index", !.pc = "get",
                             !.table = ps[i][1], !.field = ps[i][2]]
        ELSE cs[c]]

\* create_entry, up to its first await: ulid(), new Date(), the entry.
\* The clock is read at some time not before its last reading.
create_entry(c, t, value) ==
  /\ started < MaxCalls
  /\ Len(created) < MaxRecords
  /\ \E time \in now..MaxTime, r \in Rand :
       LET id == Ulid(time, r) IN
       /\ id \notin Issued \cup Pending
       /\ \A k \in RecordKeys(kv) : k[2] # id
       /\ now' = time
       /\ Begin(c, Call("create_entry", "set", t, Merge([id |-> id, date_created |-> time], value), ""))
       /\ created' = Append(created, [table |-> t, id |-> id, date |-> time,
                                       after |-> {f \in Fields : Marker(t, f) \in DOMAIN kv}])
  /\ UNCHANGED <<kv, indexes, returned, crashed>>

\* update_entry, up to its first await.
update_entry(c, t, entry) ==
  /\ Begin(c, Call("update_entry", "set", t, entry, ""))
  /\ UNCHANGED <<kv, now, indexes, created, returned, crashed>>

\* Faulty variant: create_entry returns its entry without the generated date_created.
ReturnedWithoutDate(call, res) ==
  IF call.op = "create_entry" /\ res = "ok"
  THEN Set(returned, <<call.table, call.value.id>>,
           [x \in DOMAIN call.value \ {"date_created"} |-> call.value[x]])
  ELSE returned

\* A create_entry that completes returns its entry.
Returned(call, res) ==
  IF call.op = "create_entry" /\ res = "ok"
  THEN Set(returned, <<call.table, call.value.id>>, call.value)
  ELSE returned

\* Faulty variant: the record is not written before the index maintenance.
record_set_skipped(c) ==
  LET call == calls[c]
  IN /\ call.op \in {"create_entry", "update_entry"}
     /\ call.pc = "set"
     /\ calls' = [calls EXCEPT ![c] = [call EXCEPT !.pc = "list"]]
     /\ UNCHANGED <<kv, now, indexes, started, created, returned, crashed>>

\* await this.kv.atomic().set([table_name, id], entry).commit()
record_set(c) ==
  LET call == calls[c]
      e == call.value
  IN /\ call.op \in {"create_entry", "update_entry"}
     /\ call.pc = "set"
     /\ IF "id" \notin DOMAIN e
        THEN /\ calls' = [calls EXCEPT ![c] = Done(call, TypeError)]
             /\ UNCHANGED <<kv, returned>>
        ELSE /\ kv' = Set(kv, <<call.table, e.id>>, e)
             /\ calls' = [calls EXCEPT ![c] =
                  [call EXCEPT !.pc = "list", !.writes = @ + 1,
                               !.prev = get_entry(kv, call.table, e.id)]]
             /\ returned' = IF call.op = "update_entry"
                            THEN Delete(returned, <<call.table, e.id>>)
                            ELSE returned
     /\ UNCHANGED <<now, indexes, started, created, crashed>>

\* create_indexes_for_entry: the first read of kv.list(["__indexes_for", table]).
create_indexes_for_entry_list(c) ==
  LET call == calls[c]
      l == List(kv, <<"__indexes_for", call.table>>)
      keys == [i \in 1..Len(l) |-> l[i].value]
  IN /\ call.op \in {"create_entry", "update_entry"}
     /\ call.pc = "list"
     /\ IF keys = <<>>
        THEN /\ calls' = [calls EXCEPT ![c] = Done(call, "ok")]
             /\ returned' = Returned(call, "ok")
        ELSE /\ calls' = [calls EXCEPT ![c] = [call EXCEPT !.pc = "index", !.todo = keys]]
             /\ UNCHANGED returned
     /\ UNCHANGED <<kv, now, indexes, started, created, crashed>>

\* Faulty variant: the index write also removes the entries the record has
\* under the other values of the field.
create_indexes_for_entry_replace(c) ==
  LET call == calls[c]
      e == call.value
      f == Head(call.todo)
      rest == Tail(call.todo)
      others == {k \in DOMAIN kv : Len(k) = 5 /\ k[2] = call.table /\ k[3] = f /\ k[5] = e.id}
      kept == [k \in DOMAIN kv \ others |-> kv[k]]
  IN /\ call.op \in {"create_entry", "update_entry"}
     /\ call.pc = "index"
     /\ IF f \notin DOMAIN e
        THEN /\ calls' = [calls EXCEPT ![c] = Done(call, TypeError)]
             /\ UNCHANGED <<kv, returned>>
        ELSE /\ kv' = Set(kept, IndexKey(call.table, f, e[f], e.id), e.id)
             /\ IF rest = <<>>
                THEN /\ calls' = [calls EXCEPT ![c] = Done([call EXCEPT !.writes = @ + 1], "ok")]
                     /\ returned' = Returned(call, "ok")
                ELSE /\ calls' = [calls EXCEPT ![c] =
                          [call EXCEPT !.todo = rest, !.writes = @ + 1]]
                     /\ UNCHANGED returned
     /\ UNCHANGED <<now, indexes, started, created, crashed>>

\* create_indexes_for_entry: one turn of the loop. An undefined
\* secondary_key_value is no Deno.KvKeyPart: the commit rejects.
create_indexes_for_entry_set(c) ==
  LET call == calls[c]
      e == call.value
      f == Head(call.todo)
      rest == Tail(call.todo)
  IN /\ call.op \in {"create_entry", "update_entry"}
     /\ call.pc = "index"
     /\ IF f \notin DOMAIN e
        THEN /\ calls' = [calls EXCEPT ![c] = Done(call, TypeError)]
             /\ UNCHANGED <<kv, returned>>
        ELSE /\ kv' = Set(kv, IndexKey(call.table, f, e[f], e.id), e.id)
             /\ IF rest = <<>>
                THEN /\ calls' = [calls EXCEPT ![c] = Done([call EXCEPT !.writes = @ + 1], "ok")]
                     /\ returned' = Returned(call, "ok")
                ELSE /\ calls' = [calls EXCEPT ![c] =
                          [call EXCEPT !.todo = rest, !.writes = @ + 1]]
                     /\ UNCHANGED returned
     /\ UNCHANGED <<now, indexes, started, created, crashed>>

\* create_index, up to its first await.
create_index(c, t, f) ==
  /\ Begin(c, Call("create_index", "get", t, EmptyRec, f))
  /\ UNCHANGED <<kv, now, indexes, created, returned, crashed>>

\* Faulty variant: create_index does not look for the marker.
create_index_unchecked(c) ==
  LET call == calls[c]
  IN /\ call.op = "create_index"
     /\ call.pc = "get"
     /\ calls' = [calls EXCEPT ![c] = [call EXCEPT !.pc = "mark"]]
     /\ UNCHANGED <<kv, now, indexes, started, created, returned, crashed>>

\* if (await this.get_from_key(["__indexes_for", table, key])) return
create_index_get(c) ==
  LET call == calls[c]
  IN /\ call.op = "create_index"
     /\ call.pc = "get"
     /\ calls' = [calls EXCEPT ![c] =
          IF get_from_key(kv, Marker(call.table, call.field)) # {}
          THEN Done(call, "ok")
          ELSE [call EXCEPT !.pc = "mark"]]
     /\ UNCHANGED <<kv, now, indexes, started, created, returned, crashed>>

\* await this.kv.set(["__indexes_for", table, key], key)
create_index_mark(c) ==
  LET call == calls[c]
  IN /\ call.op = "create_index"
     /\ call.pc = "mark"
     /\ kv' = Set(kv, Marker(call.table, call.field), call.field)
     /\ calls' = [calls EXCEPT ![c] = [call EXCEPT !.pc = "scan", !.writes = @ + 1]]
     /\ UNCHANGED <<now, indexes, started, created, returned, crashed>>

\* The entries of the loop that pass `if (key)`.
Backfillable(entries, f) == SelectSeq(entries, LAMBDA e : Truthy(e, f))

\* for (const entry of await this.get_all_entries(table)): the scan.
create_index_scan(c) ==
  LET call == calls[c]
      es == Backfillable(get_all_entries(kv, call.table), call.field)
  IN /\ call.op = "create_index"
     /\ call.pc = "scan"
     /\ calls' = [calls EXCEPT ![c] =
          IF es = <<>> THEN Done(call, "ok")
          ELSE [call EXCEPT !.pc = "backfill", !.todo = es]]
     /\ UNCHANGED <<kv, now, indexes, started, created, returned, crashed>>

\* Faulty variant: a backfill write on a key that is stored removes it.
create_index_toggle(c) ==
  LET call == calls[c]
      e == Head(call.todo)
      rest == Tail(call.todo)
      next == [call EXCEPT !.todo = rest, !.writes = @ + 1]
      k == IndexKey(call.table, call.field, e[call.field], e.id)
  IN /\ call.op = "create_index"
     /\ call.pc = "backfill"
     /\ kv' = IF k \in DOMAIN kv THEN Delete(kv, k) ELSE Set(kv, k, e.id)
     /\ calls' = [calls EXCEPT ![c] = IF rest = <<>> THEN Done(next, "ok") ELSE next]
     /\ UNCHANGED <<now, indexes, started, created, returned, crashed>>

\* One index write of the backfill loop.
create_index_set(c) ==
  LET call == calls[c]
      e == Head(call.todo)
      rest == Tail(call.todo)
      next == [call EXCEPT !.todo = rest, !.writes = @ + 1]
  IN /\ call.op = "create_index"
     /\ call.pc = "backfill"
     /\ kv' = Set(kv, IndexKey(call.table, call.field, e[call.field], e.id), e.id)
     /\ calls' = [calls EXCEPT ![c] = IF rest = <<>> THEN Done(next, "ok") ELSE next]
     /\ UNCHANGED <<now, indexes, started, created, returned, crashed>>

\* delete_entry(table, record), up to its first await.
delete_entry(c, t, record) ==
  /\ Begin(c, Call("delete_entry", "delete", t, record, ""))
  /\ UNCHANGED <<kv, now, indexes, created, returned, crashed>>

\* Faulty variant: delete leaves the record in place.
delete_entry_keep(c) ==
  LET call == calls[c]
  IN /\ call.op = "delete_entry"
     /\ call.pc = "delete"
     /\ calls' = [calls EXCEPT ![c] =
          [call EXCEPT !.pc = "list", !.prev = get_entry(kv, call.table, call.value.id)]]
     /\ UNCHANGED <<kv, now, indexes, started, created, returned, crashed>>

\* delete: remove (table, id).
delete_entry_delete(c) ==
  LET call == calls[c]
      e == call.value
  IN /\ call.op = "delete_entry"
     /\ call.pc = "delete"
     /\ kv' = Delete(kv, <<call.table, e.id>>)
     /\ calls' = [calls EXCEPT ![c] =
          [call EXCEPT !.pc = "list", !.writes = @ + 1,
                       !.prev = get_entry(kv, call.table, e.id)]]
     /\ returned' = Delete(returned, <<call.table, e.id>>)
     /\ UNCHANGED <<now, indexes, started, created, crashed>>

\* on_delete: the registered fields of the table.
on_delete_list(c) ==
  LET call == calls[c]
      l == List(kv, <<"__indexes_for", call.table>>)
      keys == [i \in 1..Len(l) |-> l[i].value]
  IN /\ call.op = "delete_entry"
     /\ call.pc = "list"
     /\ calls' = [calls EXCEPT ![c] =
          IF keys = <<>> THEN Done(call, "ok")
          ELSE [call EXCEPT !.pc = "index", !.todo = keys]]
     /\ UNCHANGED <<kv, now, indexes, started, created, returned, crashed>>

\* on_delete: remove the index entry of one registered field, if present.
on_delete_remove(c) ==
  LET call == calls[c]
      e == call.value
      f == Head(call.todo)
      rest == Tail(call.todo)
      next == [call EXCEPT !.todo = rest, !.writes = @ + 1]
  IN /\ call.op = "delete_entry"
     /\ call.pc = "index"
     /\ kv' = IF f \in DOMAIN e THEN Delete(kv, IndexKey(call.table, f, e[f], e.id)) ELSE kv
     /\ calls' = [calls EXCEPT ![c] = IF rest = <<>> THEN Done(next, "ok") ELSE next]
     /\ UNCHANGED <<now, indexes, started, created, returned, crashed>>

\* The process dies while a create_index is past its check of the marker:
\* every call in flight is lost, the store keeps what was committed, and the
\* application opens the database again with the same configuration.
crash ==
  LET lost == {c \in Slots : calls[c].op = "create_index" /\ calls[c].pc \in {"mark", "scan", "backfill"}}
  IN /\ lost # {}
     /\ crashed' = crashed \cup {<<calls[c].table, calls[c].field>> : c \in lost}
     /\ calls' = init_indexes([c \in Slots |-> Idle], indexes)
     /\ UNCHANGED <<kv, now, indexes, started, created, returned>>

\* The application opens the store again, with any configuration:
\* new Database(kv, indexes) and its #init_indexes.
reopen ==
  /\ Quiet
  /\ \E cfg \in Configs :
       /\ indexes' = cfg
       /\ calls' = init_indexes([c \in Slots |-> Idle], cfg)
  /\ UNCHANGED <<kv, now, started, created, returned, crashed>>

\* ------------------------------------------------------------- inputs
\* The ids a caller can pass: of a record it read, or any other id
\* (of a deleted record, or one no create_entry issued).
KnownIds(t) == {k[2] : k \in {j \in RecordKeys(kv) : j[1] = t}} \ Unreturned
OtherIds(t) ==
  LET free == {i \in IdPool : \A u \in Tables : <<u, i>> \notin DOMAIN kv} \ (Issued \cup Pending)
  IN IF Cardinality(RecordKeys(kv)) < MaxRecords /\ free # {}
     THEN {CHOOSE i \in free : \A j \in free : i <= j}
     ELSE {}

\* Partial<Model>: with or without id, with or without date_created (the one
\* the caller read), and any subset of the fields.
UpdateHeads(t) ==
  {EmptyRec}
    \cup {[id |-> i] : i \in KnownIds(t) \cup OtherIds(t)}
    \cup {[id |-> i, date_created |-> kv[<<t, i>>].date_created] :
            i \in {j \in KnownIds(t) : "date_created" \in DOMAIN kv[<<t, j>>]}}
UpdateArgs(t) == {Merge(h, g) : h \in UpdateHeads(t), g \in FieldSets(t)}

\* ------------------------------------------------------------- specification
\* The state after `await Database.open(path, cfg)` on an empty store.
Init ==
  /\ kv = EmptyRec
  /\ now = 0
  /\ started = 0
  /\ created = <<>>
  /\ returned = EmptyRec
  /\ crashed = {}
  /\ \E cfg \in Configs :
       /\ indexes = cfg
       /\ calls = init_indexes([c \in Slots |-> Idle], cfg)

Start ==
  \/ \E c \in Slots, t \in Tables : \E v \in FieldSets(t) : create_entry(c, t, v)
  \/ \E c \in Slots, t \in Tables : \E e \in UpdateArgs(t) : update_entry(c, t, e)
  \/ \E c \in Slots, p \in IndexPairs : create_index(c, p[1], p[2])
  \/ \E c \in Slots, t \in Tables : \E i \in KnownIds(t) : delete_entry(c, t, kv[<<t, i>>])

Step ==
  \/ \E c \in Slots : record_set(c)
  \/ \E c \in Slots : create_indexes_for_entry_list(c)
  \/ \E c \in Slots : create_indexes_for_entry_set(c)
  \/ \E c \in Slots : create_index_get(c)
  \/ \E c \in Slots : create_index_mark(c)
  \/ \E c \in Slots : create_index_scan(c)
  \/ \E c \in Slots : create_index_set(c)
  \/ \E c \in Slots : delete_entry_delete(c)
  \/ \E c \in Slots : on_delete_list(c)
  \/ \E c \in Slots : on_delete_remove(c)

Next == Start \/ Step

\* Every interleaving of the steps of the calls in flight.
Spec == Init /\ [][Next]_vars

\* The application awaits every call before it makes the next (the index
\* initialisation of the constructor included).
StartSeq ==
  \/ Quiet /\ \E c \in Slots, t \in Tables : \E v \in FieldSets(t) : create_entry(c, t, v)
  \/ Quiet /\ \E c \in Slots, t \in Tables : \E e \in UpdateArgs(t) : update_entry(c, t, e)
  \/ Quiet /\ \E c \in Slots, p \in IndexPairs : create_index(c, p[1], p[2])
  \/ Quiet /\ \E c \in Slots, t \in Tables : \E i \in KnownIds(t) : delete_entry(c, t, kv[<<t, i>>])
NextSeq == StartSeq \/ Step
SpecSeq == Init /\ [][NextSeq]_vars

\* Awaited create_entry and create_index calls only: no update, no delete.
NextCreate ==
  \/ Quiet /\ \E c \in Slots, t \in Tables : \E v \in FieldSets(t) : create_entry(c, t, v)
  \/ Quiet /\ \E c \in Slots, p \in IndexPairs : create_index(c, p[1], p[2])
  \/ \E c \in Slots : record_set(c)
  \/ \E c \in Slots : create_indexes_for_entry_list(c)
  \/ \E c \in Slots : create_indexes_for_entry_set(c)
  \/ \E c \in Slots : create_index_get(c)
  \/ \E c \in Slots : create_index_mark(c)
  \/ \E c \in Slots : create_index_scan(c)
  \/ \E c \in Slots : create_index_set(c)
SpecCreate == Init /\ [][NextCreate]_vars

\* Awaited create_entry and create_index calls, and crashes in a backfill.
NextCrash == NextCreate \/ crash
SpecCrash == Init /\ [][NextCrash]_vars

\* create_entry and create_index calls that are not awaited: every
\* interleaving of their steps.
NextRace ==
  \/ \E c \in Slots, t \in Tables : \E v \in FieldSets(t) : create_entry(c, t, v)
  \/ \E c \in Slots, p \in IndexPairs : create_index(c, p[1], p[2])
  \/ \E c \in Slots : record_set(c)
  \/ \E c \in Slots : create_indexes_for_entry_list(c)
  \/ \E c \in Slots : create_indexes_for_entry_set(c)
  \/ \E c \in Slots : create_index_get(c)
  \/ \E c \in Slots : create_index_mark(c)
  \/ \E c \in Slots : create_index_scan(c)
  \/ \E c \in Slots : create_index_set(c)
SpecRace == Init /\ [][NextRace]_vars

\* create_entry, update_entry and create_index calls that are not awaited.
NextWrite ==
  \/ \E c \in Slots, t \in Tables : \E v \in FieldSets(t) : create_entry(c, t, v)
  \/ \E c \in Slots, t \in Tables : \E e \in UpdateArgs(t) : update_entry(c, t, e)
  \/ \E c \in Slots, p \in IndexPairs : create_index(c, p[1], p[2])
  \/ \E c \in Slots : record_set(c)
  \/ \E c \in Slots : create_indexes_for_entry_list(c)
  \/ \E c \in Slots : create_indexes_for_entry_set(c)
  \/ \E c \in Slots : create_index_get(c)
  \/ \E c \in Slots : create_index_mark(c)
  \/ \E c \in Slots : create_index_scan(c)
  \/ \E c \in Slots : create_index_set(c)
SpecWrite == Init /\ [][NextWrite]_vars

\* Awaited create_entry calls, and create_index calls that overlap each
\* other but no create_entry.
NextDeclare ==
  \/ Quiet /\ \E c \in Slots, t \in Tables : \E v \in FieldSets(t) : create_entry(c, t, v)
  \/ /\ \A d \in Slots : InFlight(d) => calls[d].op = "create_index"
     /\ \E c \in Slots, p \in IndexPairs : create_index(c, p[1], p[2])
  \/ \E c \in Slots : record_set(c)
  \/ \E c \in Slots : create_indexes_for_entry_list(c)
  \/ \E c \in Slots : create_indexes_for_entry_set(c)
  \/ \E c \in Slots : create_index_get(c)
  \/ \E c \in Slots : create_index_mark(c)
  \/ \E c \in Slots : create_index_scan(c)
  \/ \E c \in Slots : create_index_set(c)
SpecDeclare == Init /\ [][NextDeclare]_vars

\* Awaited create_entry and create_index calls, and update_entry calls on
\* stored records that overlap each other only.
NextUpdate ==
  \/ Quiet /\ \E c \in Slots, t \in Tables : \E v \in FieldSets(t) : create_entry(c, t, v)
  \/ Quiet /\ \E c \in Slots, p \in IndexPairs : create_index(c, p[1], p[2])
  \/ /\ \A d \in Slots : InFlight(d) => calls[d].op = "update_entry"
     /\ \E c \in Slots, t \in Tables : \E i \in KnownIds(t), g \in FieldSets(t) :
          update_entry(c, t, Merge([id |-> i], g))
  \/ \E c \in Slots : record_set(c)
  \/ \E c \in Slots : create_indexes_for_entry_list(c)
  \/ \E c \in Slots : create_indexes_for_entry_set(c)
  \/ \E c \in Slots : create_index_get(c)
  \/ \E c \in Slots : create_index_mark(c)
  \/ \E c \in Slots : create_index_scan(c)
  \/ \E c \in Slots : create_index_set(c)
SpecUpdate == Init /\ [][NextUpdate]_vars

\* The fields of users that an application indexes: email (tests) and age.
WideFields == {"age", "email"}
\* Every subset of them, each field with one (truthy) value.
WideFieldSets(t) ==
  {[f \in S |-> 1] : S \in SUBSET (IF t = "users" THEN WideFields ELSE {})}
WideUpdateArgs(t) == {Merge(h, g) : h \in UpdateHeads(t), g \in WideFieldSets(t)}

\* Awaited calls on records with two indexable fields, and the store opened
\* again with another configuration.
NextReopen ==
  \/ Quiet /\ \E c \in Slots, t \in Tables : \E v \in WideFieldSets(t) : create_entry(c, t, v)
  \/ Quiet /\ \E c \in Slots, t \in Tables : \E e \in WideUpdateArgs(t) : update_entry(c, t, e)
  \/ Quiet /\ \E c \in Slots, f \in WideFields : create_index(c, "users", f)
  \/ reopen
  \/ \E c \in Slots : record_set(c)
  \/ \E c \in Slots : create_indexes_for_entry_list(c)
  \/ \E c \in Slots : create_indexes_for_entry_set(c)
  \/ \E c \in Slots : create_index_get(c)
  \/ \E c \in Slots : create_index_mark(c)
  \/ \E c \in Slots : create_index_scan(c)
  \/ \E c \in Slots : create_index_set(c)
SpecReopen == Init /\ [][NextReopen]_vars

TypeOK ==
  /\ now \in 0..MaxTime
  /\ indexes \in Configs
  /\ started \in 0..MaxCalls
  /\ Len(created) <= MaxRecords
  /\ \A c \in Slots :
       calls[c].op \in {"idle", "create_entry", "update_entry", "create_index", "delete_entry"}
  /\ \A k \in DOMAIN kv : Len(k) \in {2, 3, 5}

\* ------------------------------------------------------------- properties
TableRecords(t) == {kv[k] : k \in {j \in RecordKeys(kv) : j[1] = t}}
Registered(t, f) == Marker(t, f) \in DOMAIN kv
\* The elements of a sequence, as a set.
Range(q) == {q[i] : i \in DOMAIN q}
IsDone(c, o) == calls[c].op = o /\ calls[c].pc = "done"

\* C1: with no call in flight, every live record that has a value for a
\* registered field has the index entry (table, f, r[f], r.id), with value r.id.
C1_IndexInvariant ==
  Quiet =>
    \A k \in RecordKeys(kv) : \A f \in Fields :
      (Registered(k[1], f) /\ f \in DOMAIN kv[k]) =>
        /\ IndexKey(k[1], f, kv[k][f], k[2]) \in DOMAIN kv
        /\ kv[IndexKey(k[1], f, kv[k][f], k[2])] = k[2]

\* C2: once update_entry has changed an indexed field of a record from v to
\* w, the entry (table, f, v, id) is gone and get_entries_by_index(table, f, v)
\* does not return the record.
C2_RetractedValueUnindexed ==
  \A c \in Slots : \A f \in Fields : \A old \in calls[c].prev :
    LET call == calls[c] IN
    ( /\ IsDone(c, "update_entry")
      /\ call.result = "ok"
      /\ Registered(call.table, f)
      /\ f \in DOMAIN old
      /\ f \in DOMAIN call.value
      /\ old[f] # call.value[f] ) =>
        /\ IndexKey(call.table, f, old[f], call.value.id) \notin DOMAIN kv
        /\ {call.value} \notin Range(get_entries_by_index(kv, call.table, f, old[f]))

\* C3: the record create_entry returned, with its generated id and
\* date_created, is what get_entry returns for that id until an update or a
\* delete of the id; other creates do not change it.
C3_RoundTrip ==
  \A k \in DOMAIN returned :
    /\ returned[k].id = k[2]
    /\ "date_created" \in DOMAIN returned[k]
    /\ get_entry(kv, k[1], k[2]) = {returned[k]}

\* Two records were created and returned, and both are read back.
C3_Witness ==
  /\ Cardinality(DOMAIN returned) = MaxRecords
  /\ \A k \in DOMAIN returned : get_entry(kv, k[1], k[2]) = {returned[k]}

\* C4: once create_index on an unregistered pair has returned,
\* get_entries_by_index(table, f, v) returns exactly the records whose f is
\* v, each once, for every value v that appears in field f.
C4_IndexCoverageAfterDeclare ==
  \A c \in Slots : \A v \in Values :
    LET call == calls[c]
        have == {r \in TableRecords(call.table) : call.field \in DOMAIN r /\ r[call.field] = v}
        got == get_entries_by_index(kv, call.table, call.field, v)
    IN ( /\ IsDone(c, "create_index")
         /\ call.writes > 0
         /\ have # {} ) =>
           /\ Range(got) = {{r} : r \in have}
           /\ Len(got) = Cardinality(have)

\* C5: on a database opened with (table, f) configured, once create_entry has
\* returned a record that alone has its value of f, get_entry_by_index(table,
\* f, that value) returns the record, however the index initialisation
\* interleaves.
C5_LookupAfterCreate ==
  \A c \in Slots : \A f \in Fields :
    LET call == calls[c]
        same == {r \in TableRecords(call.table) : f \in DOMAIN r /\ r[f] = call.value[f]}
    IN ( /\ IsDone(c, "create_entry")
         /\ call.result = "ok"
         /\ <<call.table, f>> \in indexes
         /\ f \in DOMAIN call.value
         /\ same = {call.value} ) =>
           get_entry_by_index(kv, call.table, f, call.value[f]) = Return({call.value})

\* C6: once delete_entry(table, record) has returned, get_entry(table,
\* record.id) is absent, the index entry of every registered field of the
\* record is removed and get_entry_by_index(table, f, record[f]) does not
\* return the record.
C6_DeleteRemovesBoth ==
  \A c \in Slots :
    LET call == calls[c] IN
    IsDone(c, "delete_entry") =>
      /\ get_entry(kv, call.table, call.value.id) = {}
      /\ \A f \in Fields :
           (Registered(call.table, f) /\ f \in DOMAIN call.value) =>
             /\ IndexKey(call.table, f, call.value[f], call.value.id) \notin DOMAIN kv
             /\ get_entry_by_index(kv, call.table, f, call.value[f]) # Return({call.value})

\* A record that was indexed has been deleted.
C6_Witness ==
  \E c \in Slots : \E f \in Fields :
    /\ IsDone(c, "delete_entry")
    /\ calls[c].prev = {calls[c].value}
    /\ Registered(calls[c].table, f)
    /\ f \in DOMAIN calls[c].value
    /\ calls[c].writes > 1

\* C7: update_entry with an id that is unset or names no record of the table
\* fails and writes nothing.
C7_UpdateNotFound ==
  \A c \in Slots :
    (IsDone(c, "update_entry") /\ calls[c].prev = {}) =>
      /\ calls[c].result # "ok"
      /\ calls[c].writes = 0

\* C8: a record that create_entry created keeps its id and its date_created
\* through every update_entry, and a completed update leaves its fields with
\* the values passed.
C8_UpdatePreservesIdentity ==
  /\ \A i \in DOMAIN created :
       LET k == <<created[i].table, created[i].id>> IN
       k \in DOMAIN kv =>
         /\ kv[k].id = created[i].id
         /\ "date_created" \in DOMAIN kv[k]
         /\ kv[k].date_created = created[i].date
  /\ \A c \in Slots :
       LET call == calls[c] IN
       (IsDone(c, "update_entry") /\ call.result = "ok") =>
         \A f \in DOMAIN call.value : kv[<<call.table, call.value.id>>][f] = call.value[f]

\* The position of an id in the order of the ulid() calls.
Pos(id) == CHOOSE i \in DOMAIN created : created[i].id = id
\* The ids of the records of table t that create_entry has written.
WrittenIds(t) ==
  {created[i].id : i \in {j \in DOMAIN created :
      /\ created[j].table = t
      /\ \A c \in Slots : ~( /\ calls[c].op = "create_entry"
                             /\ calls[c].pc = "set"
                             /\ calls[c].value.id = created[j].id )}}

\* C9 (as stated): after create_entry calls only, get_all_entries(table)
\* returns exactly the created records, each once, in ascending id order,
\* and that order is the order of creation.
C9_ListingCreationOrder ==
  \A t \in Tables :
    LET l == get_all_entries(kv, t) IN
    /\ {l[i].id : i \in DOMAIN l} = WrittenIds(t)
    /\ Len(l) = Cardinality(WrittenIds(t))
    /\ \A i, j \in DOMAIN l : i < j =>
         /\ l[i].id < l[j].id
         /\ Pos(l[i].id) < Pos(l[j].id)

\* C9 (amended): after create_entry calls only, get_all_entries(table)
\* returns exactly the created records, each once and as returned, in
\* ascending id order; that is the order of creation for records created at
\* different clock readings.
C9_ListingAscendingIds ==
  \A t \in Tables :
    LET l == get_all_entries(kv, t) IN
    /\ {l[i].id : i \in DOMAIN l} = WrittenIds(t)
    /\ Len(l) = Cardinality(WrittenIds(t))
    /\ \A k \in DOMAIN returned : k[1] = t => returned[k] \in Range(l)
    /\ \A i, j \in DOMAIN l : i < j =>
         /\ l[i].id < l[j].id
         /\ l[i].date_created # l[j].date_created => Pos(l[i].id) < Pos(l[j].id)

\* A table lists as many records as the bound allows, created at different
\* clock readings.
C9_Witness ==
  \E t \in Tables :
    LET l == get_all_entries(kv, t) IN
    /\ Len(l) = MaxRecords
    /\ l[1].date_created # l[Len(l)].date_created
    /\ Quiet

\* C10: a create_index on a registered pair returns at its check of the
\* marker and writes nothing: the store is as the first declaration left it.
C10_RedeclareWritesNothing ==
  [][\A c \in Slots :
       ( /\ calls[c].op = "create_index"
         /\ calls[c].pc = "get"
         /\ Registered(calls[c].table, calls[c].field)
         /\ calls'[c] # calls[c] ) =>
           /\ kv' = kv
           /\ calls'[c].pc = "done"
           /\ calls'[c].writes = 0]_vars

\* A create_index on a registered pair has returned.
C10_Witness ==
  \E c \in Slots :
    /\ IsDone(c, "create_index")
    /\ calls[c].writes = 0
    /\ Registered(calls[c].table, calls[c].field)
    /\ TableRecords(calls[c].table) # {}

\* C11: after a create_index(table, f) was interrupted by a crash, a
\* create_index(table, f) that runs again to its end leaves every record of
\* the table that has a value for f with its index entry (here already for
\* the truthy values, which an uninterrupted backfill does index).
C11_RerunCoversAll ==
  \A c \in Slots :
    LET call == calls[c] IN
    ( /\ Quiet
      /\ IsDone(c, "create_index")
      /\ <<call.table, call.field>> \in crashed ) =>
        \A r \in TableRecords(call.table) :
          Truthy(r, call.field) =>
            IndexKey(call.table, call.field, r[call.field], r.id) \in DOMAIN kv

\* C12: however the steps of create_index(table, f) and of concurrent
\* create_entry calls interleave, once all of them have completed every
\* created record that has a value for f has its entry (table, f, value, id).
C12_DeclareCreateConverge ==
  (Quiet /\ \E p \in IndexPairs : Registered(p[1], p[2])) =>
    \A i \in DOMAIN created : \A f \in Fields :
      LET t == created[i].table
          r == kv[<<t, created[i].id>>]
      IN (Registered(t, f) /\ f \in DOMAIN r) =>
           get_from_key(kv, IndexKey(t, f, r[f], r.id)) = {r.id}

\* C13: get_entry_by_index(table, f, v) never rejects; it returns the record
\* that the first index entry under (table, f, v) refers to, and undefined
\* when there is no entry under the prefix or the record it refers to is
\* missing.
C13_LookupAbsentNotError ==
  \A p \in IndexPairs : \A v \in Values :
    LET es == get_all_from_key(kv, <<"__indexes", p[1], p[2], v>>)
        res == get_entry_by_index(kv, p[1], p[2], v)
    IN /\ ~res.error
       /\ res.value = IF es = <<>> THEN {} ELSE get_from_key(kv, <<p[1], es[1].value>>)

\* C14: get_entries_by_index(table, f, v) holds no undefined element: it
\* has one existing record per index entry under (table, f, v) whose record
\* exists, and skips the entries whose record is missing.
C14_DanglingSkipped ==
  \A p \in IndexPairs : \A v \in Values :
    LET es == get_all_from_key(kv, <<"__indexes", p[1], p[2], v>>)
        live == {i \in DOMAIN es : <<p[1], es[i].value>> \in DOMAIN kv}
        got == get_entries_by_index(kv, p[1], p[2], v)
    IN /\ {} \notin Range(got)
       /\ Len(got) = Cardinality(live)
       /\ Range(got) = {{kv[<<p[1], es[i].value>>]} : i \in live}

\* The records that completed create_entry calls made on table t with value
\* v in field f, the marker of (t, f) being written when they were called.
CreatedAfter(t, f, v) ==
  {returned[k] : k \in {j \in DOMAIN returned :
      /\ j[1] = t
      /\ f \in created[Pos(j[2])].after
      /\ f \in DOMAIN returned[j]
      /\ returned[j][f] = v}}

\* C15: the records created after create_index(table, f) that share the
\* value v of f each have their own index entry, and
\* get_entries_by_index(table, f, v) returns each of them exactly once and
\* no record whose f is not v.
C15_NonUniqueIndex ==
  \A p \in IndexPairs : \A v \in Values :
    LET got == get_entries_by_index(kv, p[1], p[2], v) IN
    /\ \A r \in CreatedAfter(p[1], p[2], v) :
         /\ get_from_key(kv, IndexKey(p[1], p[2], v, r.id)) = {r.id}
         /\ Cardinality({i \in DOMAIN got : got[i] = {r}}) = 1
    /\ \A i \in DOMAIN got : \A r \in got[i] : p[2] \in DOMAIN r /\ r[p[2]] = v

\* Two records created after the declaration share a value, and a lookup
\* returns both.
C15_Witness ==
  \E p \in IndexPairs : \E v \in Values :
    /\ Cardinality(CreatedAfter(p[1], p[2], v)) = 2
    /\ Len(get_entries_by_index(kv, p[1], p[2], v)) = 2

\* C16: a create_entry or update_entry whose record has no value for a
\* registered field f completes normally, and writes the record and the
\* entries of the registered fields the record has, none for f.
C16_AbsentFieldNoEntry ==
  \A c \in Slots : \A f \in Fields :
    LET call == calls[c] IN
    ( /\ IsDone(c, "create_entry") \/ IsDone(c, "update_entry")
      /\ "id" \in DOMAIN call.value
      /\ Registered(call.table, f)
      /\ f \notin DOMAIN call.value ) =>
        /\ call.result = "ok"
        /\ call.writes =
             1 + Cardinality({g \in DOMAIN call.value : Registered(call.table, g)})

\* The ids of the records stored in table t, and the i-th of them in order.
TableIds(t) == {k[2] : k \in {j \in RecordKeys(kv) : j[1] = t}}
Nth(ids, i) == CHOOSE x \in ids : Cardinality({y \in ids : y < x}) = i - 1

\* C17: get_all_entries(table, limit) is the first min(limit, N) of the N
\* records of the table in primary-key order, all N of them when limit is
\* omitted: every element is the record stored under a key of the table, so
\* no record of another table and no index or definition row.
C17_ListingLimit ==
  \A t \in Tables :
    LET ids == TableIds(t)
        N == Cardinality(ids)
        all == get_all_entries_limit(kv, t, {})
    IN /\ Len(all) = N
       /\ \A i \in 1..N : all[i] = kv[<<t, Nth(ids, i)>>]
       /\ \A n \in 1..(MaxRecords + 1) :
            LET got == get_all_entries_limit(kv, t, {n}) IN
            /\ Len(got) = IF n < N THEN n ELSE N
            /\ \A i \in DOMAIN got : got[i] = kv[<<t, Nth(ids, i)>>]

\* A table holds more records than the limit, and the store holds an index
\* entry and a definition.
C17_Witness ==
  \E t \in Tables :
    /\ Cardinality(TableIds(t)) = 2
    /\ Len(get_all_entries_limit(kv, t, {1})) = 1
    /\ \E k \in DOMAIN kv : Len(k) = 5

\* C18: in every state of every interleaving of create_entry, update_entry
\* and create_index, each index entry (table, f, v, id) has value id, refers
\* to a record stored at (table, id) and belongs to a pair whose marker is
\* stored; a call has written its record before it lists the definitions
\* and writes its entries.
C18_EntriesDerived ==
  /\ \A k \in DOMAIN kv :
       Len(k) = 5 =>
         /\ kv[k] = k[5]
         /\ <<k[2], k[5]>> \in DOMAIN kv
         /\ Registered(k[2], k[3])
  /\ \A c \in Slots :
       LET call == calls[c] IN
       call.op \in {"create_entry", "update_entry"} =>
         /\ call.pc = "set" => call.writes = 0
         /\ call.pc \in {"list", "index"} =>
              /\ call.writes >= 1
              /\ <<call.table, call.value.id>> \in DOMAIN kv

\* A call is between its record write and its index write while a
\* create_index is in its backfill and an entry is stored.
C18_Witness ==
  \E c, d \in Slots :
    /\ calls[c].op \in {"create_entry", "update_entry"}
    /\ calls[c].pc = "index"
    /\ calls[d].op = "create_index"
    /\ calls[d].pc = "backfill"
    /\ \E k \in DOMAIN kv : Len(k) = 5

\* The index entries of (t, f) that are stored.
EntriesOf(t, f) == {k \in DOMAIN kv : Len(k) = 5 /\ k[2] = t /\ k[3] = f}
\* The entries one create_index(t, f) writes for the records of the table.
BackfillOf(t, f) ==
  LET es == Backfillable(get_all_entries(kv, t), f)
  IN {IndexKey(t, f, es[i][f], es[i].id) : i \in DOMAIN es}

\* C19: once two overlapping create_index(table, f) calls that both found
\* the pair unregistered have completed, the pair has exactly one definition
\* marker and its index entries are those one create_index writes, each with
\* the id of its record as value.
C19_ConcurrentDeclare ==
  \A c, d \in Slots :
    ( /\ c # d
      /\ IsDone(c, "create_index") /\ IsDone(d, "create_index")
      /\ calls[c].table = calls[d].table /\ calls[c].field = calls[d].field
      /\ calls[c].writes >= 1 /\ calls[d].writes >= 1 ) =>
        LET t == calls[c].table
            f == calls[c].field
            defs == get_all_from_key(kv, <<"__indexes_for", t>>)
        IN /\ Cardinality({i \in DOMAIN defs : defs[i].value = f}) = 1
           /\ EntriesOf(t, f) = BackfillOf(t, f)
           /\ \A k \in EntriesOf(t, f) : kv[k] = k[5]

\* Both calls wrote the marker and an entry.
C19_Witness ==
  \E c, d \in Slots :
    /\ c # d
    /\ IsDone(c, "create_index") /\ IsDone(d, "create_index")
    /\ calls[c].writes >= 2 /\ calls[d].writes >= 2
    /\ EntriesOf(calls[c].table, calls[c].field) # {}

\* The index entries stored for the record id of table t.
StoredEntries(t, id) == {k \in DOMAIN kv : Len(k) = 5 /\ k[2] = t /\ k[5] = id}
\* The entries create_indexes_for_entry writes for record r of table t.
OnWriteEntries(t, r) ==
  {IndexKey(t, f, r[f], r.id) : f \in {g \in DOMAIN r : g \in Fields /\ Registered(t, g)}}

\* C20: with no call in flight, a record that create_index backfilled has
\* the index entries it has when it is created after the declaration (those
\* create_indexes_for_entry writes), whatever the value of the field, the
\* falsy values included.
C20_BackfillAsOnWrite ==
  Quiet =>
    \A i \in DOMAIN created :
      LET t == created[i].table
          id == created[i].id
      IN StoredEntries(t, id) = OnWriteEntries(t, kv[<<t, id>>])

\* C21: once two overlapping update_entry calls on one record that set
\* different values of a registered field f have both completed, the entry
\* of the value of f stored at (table, id) exists, and
\* get_entries_by_index(table, f, stored value) returns the stored record.
C21_ConcurrentUpdatesIndexed ==
  \A c, d \in Slots : \A f \in Fields :
    ( /\ c # d
      /\ IsDone(c, "update_entry") /\ IsDone(d, "update_entry")
      /\ calls[c].table = calls[d].table
      /\ "id" \in DOMAIN calls[c].value /\ "id" \in DOMAIN calls[d].value
      /\ calls[c].value.id = calls[d].value.id
      /\ f \in DOMAIN calls[c].value /\ f \in DOMAIN calls[d].value
      /\ calls[c].value[f] # calls[d].value[f]
      /\ Registered(calls[c].table, f) ) =>
        LET t == calls[c].table
            stored == kv[<<t, calls[c].value.id>>]
        IN /\ f \in DOMAIN stored
           /\ get_from_key(kv, IndexKey(t, f, stored[f], stored.id)) = {stored.id}
           /\ {stored} \in Range(get_entries_by_index(kv, t, f, stored[f]))

\* Two overlapping updates of one record with different values of the
\* registered field have completed, each after its record and index write;
\* the record stored is that of the call that wrote its index entry first.
C21_Witness ==
  \E c, d \in Slots : \E f \in Fields :
    /\ c # d
    /\ IsDone(c, "update_entry") /\ IsDone(d, "update_entry")
    /\ calls[c].writes = 2 /\ calls[d].writes = 2
    /\ calls[c].value.id = calls[d].value.id
    /\ f \in DOMAIN calls[c].value /\ f \in DOMAIN calls[d].value
    /\ calls[c].value[f] # calls[d].value[f]
    /\ calls[c].prev # {} /\ calls[d].prev # {}

\* C22: a create_entry or update_entry that has completed on a table whose
\* marker of f is written, with a record that has a value for f, has written
\* the entry of f, whatever configuration the Database was opened with (the
\* marker stays once written: no action removes a key of that family).
C22_DefinitionsPersist ==
  \A c \in Slots : \A f \in WideFields :
    LET call == calls[c] IN
    ( /\ IsDone(c, "create_entry") \/ IsDone(c, "update_entry")
      /\ "id" \in DOMAIN call.value
      /\ f \in DOMAIN call.value
      /\ Registered(call.table, f) ) =>
        get_from_key(kv, IndexKey(call.table, f, call.value[f], call.value.id))
          = {call.value.id}

====
